---------------------------- MODULE Spec2Model ----------------------------
(***************************************************************************)
(* Model of agc.py: OTU clustering of amplicon reads.                      *)
(*   read_fasta -> dereplication_fulllength -> abundance_greedy_clustering *)
(* and the identity metric get_identity.                                   *)
(*                                                                         *)
(* Strings are sequences of one-character strings.  A [sequence, count]    *)
(* record of the program is the tuple <<sequence, count>>.  An identity    *)
(* rate (a float rounded to two decimals) is an integer number of          *)
(* hundredths of a percent: 97.06 is 9706.                                 *)
(***************************************************************************)
EXTENDS Integers, Sequences, FiniteSets, TLC

VARIABLES
    file,       \* the lines of the (decompressed) amplicon file
    minseqlen,  \* argument minseqlen
    mincount,   \* argument mincount
    pc,         \* position of the program
    lineno,     \* read_fasta: number of lines consumed
    seq,        \* read_fasta: the accumulated sequence
    reads,      \* the sequences yielded by read_fasta, in order
    common,     \* dereplication_fulllength: occurence.most_common()
    cpos,       \* dereplication_fulllength: items of common consumed
    emitted,    \* the records yielded by dereplication_fulllength, in order
    list_OTU,   \* abundance_greedy_clustering: list_OTU
    cur,        \* abundance_greedy_clustering: loop variable i
    jpos,       \* abundance_greedy_clustering: index of loop variable j
    unique,     \* abundance_greedy_clustering: unique
    err,        \* the exception that ended the run ("none" when there is none)
    alnA,       \* get_identity: alignment_list[0]
    alnB,       \* get_identity: alignment_list[1]
    idres       \* get_identity: outcome of the call

vars == <<file, minseqlen, mincount, pc, lineno, seq, reads, common, cpos,
          emitted, list_OTU, cur, jpos, unique, err, alnA, alnB, idres>>

idVars == <<alnA, alnB, idres>>

(***************************************************************************)
(* Bounds of the model.                                                    *)
(***************************************************************************)
MaxLines == 3
MaxMinSeqLen == 2
MaxMinCount == 2
MaxAlnLen == 3

(***************************************************************************)
(* Strings.                                                                *)
(***************************************************************************)
Whitespace == {" ", "\n", "\t"}

Rep(c, n) == [k \in 1..n |-> c]

\* str.strip(): drop the leading and the trailing whitespace.
RECURSIVE lstrip(_)
lstrip(s) ==
    IF s # <<>> /\ Head(s) \in Whitespace THEN lstrip(Tail(s)) ELSE s

RECURSIVE rstrip(_)
rstrip(s) ==
    IF s # <<>> /\ s[Len(s)] \in Whitespace
    THEN rstrip(SubSeq(s, 1, Len(s) - 1))
    ELSE s

strip(s) == lstrip(rstrip(s))

\* Code point order of the characters that occur.
Ord(c) ==
    CASE c = "\t" -> 9
      [] c = "\n" -> 10
      [] c = " " -> 32
      [] c = "-" -> 45
      [] c = "1" -> 49
      [] c = "2" -> 50
      [] c = "3" -> 51
      [] c = "4" -> 52
      [] c = "5" -> 53
      [] c = ">" -> 62
      [] c = "A" -> 65
      [] c = "C" -> 67
      [] c = "G" -> 71
      [] c = "T" -> 84
      [] c = "r" -> 114

\* Python's str < str: lexicographic by code point, a proper prefix is smaller.
StrLess(a, b) ==
    LET n == IF Len(a) <= Len(b) THEN Len(a) ELSE Len(b)
        diff == {k \in 1..n : a[k] # b[k]}
    IN  IF diff = {} THEN Len(a) < Len(b)
        ELSE LET k == CHOOSE d \in diff : \A e \in diff : d <= e
             IN  Ord(a[k]) < Ord(b[k])


(***************************************************************************)
(* The inputs.                                                             *)
(***************************************************************************)
Header == <<">", "r", "\n">>
LineA == <<"A", "\n">>
Long1 == Rep("A", 34) \o <<"\n">>
Long2 == Rep("A", 33) \o <<"T", "\n">>

LineSet == {Header, LineA, Long1, Long2}

Files == UNION {[1..n -> LineSet] : n \in 0..MaxLines}

\* The record stream >r1 / AAAA / AAAA, >r2 / AAAA, >r3 / TTTT, >r4 / TTTT,
\* >r5 / TTTT.
AAAA == Rep("A", 4)
TTTT == Rep("T", 4)
Scenario ==
    << <<">", "r", "1", "\n">>, AAAA \o <<"\n">>, AAAA \o <<"\n">>,
       <<">", "r", "2", "\n">>, AAAA \o <<"\n">>,
       <<">", "r", "3", "\n">>, TTTT \o <<"\n">>,
       <<">", "r", "4", "\n">>, TTTT \o <<"\n">>,
       <<">", "r", "5", "\n">>, TTTT \o <<"\n">> >>
ScenarioArgs == [minseqlen |-> 4, mincount |-> 2]

(***************************************************************************)
(* read_fasta.                                                             *)
(***************************************************************************)
startswith(line, c) == line # <<>> /\ line[1] = c

\* seq += line.strip()
AccumulateWhole(s, line) == strip(line)
Accumulate(s, line) == s \o strip(line)

\* if len(seq) >= minseqlen: yield seq
FlushHeader(rs, s, minlen) == IF Len(s) >= minlen THEN Append(rs, s) ELSE rs

\* yield seq, after the last line
FlushEnd(rs, s, minlen) == Append(rs, s)

(***************************************************************************)
(* dereplication_fulllength.                                               *)
(***************************************************************************)
\* sorted(..., reverse=True): a stable sort into descending order.
RECURSIVE PrefixGeq(_, _, _)
PrefixGeq(s, x, k) ==
    IF k < Len(s) /\ ~StrLess(s[k + 1], x) THEN PrefixGeq(s, x, k + 1) ELSE k

InsertDesc(s, x) ==
    LET k == PrefixGeq(s, x, 0)
    IN  SubSeq(s, 1, k) \o <<x>> \o SubSeq(s, k + 1, Len(s))

RECURSIVE sorted_ascending(_)
sorted_ascending(s) ==
    IF s = <<>> THEN <<>>
    ELSE LET rest == sorted_ascending(SubSeq(s, 1, Len(s) - 1))
             x == s[Len(s)]
             k == CHOOSE n \in 0..Len(rest) :
                      /\ \A p \in 1..n : ~StrLess(x, rest[p])
                      /\ \A p \in (n + 1)..Len(rest) : StrLess(x, rest[p])
         IN  SubSeq(rest, 1, k) \o <<x>> \o SubSeq(rest, k + 1, Len(rest))

RECURSIVE sorted_reverse(_)
sorted_reverse(s) ==
    IF s = <<>> THEN <<>>
    ELSE InsertDesc(sorted_reverse(SubSeq(s, 1, Len(s) - 1)), s[Len(s)])

\* Counter(iterable): the items in the order of their first occurrence.
CountOne(items, x) ==
    IF \E k \in DOMAIN items : items[k][1] = x
    THEN [k \in DOMAIN items |->
             IF items[k][1] = x THEN <<x, items[k][2] + 1>> ELSE items[k]]
    ELSE Append(items, <<x, 1>>)

RECURSIVE Counter(_)
Counter(s) ==
    IF s = <<>> THEN <<>>
    ELSE CountOne(Counter(SubSeq(s, 1, Len(s) - 1)), s[Len(s)])

\* Counter.most_common(): sorted(items, key=itemgetter(1), reverse=True), a
\* stable sort into descending count.
RECURSIVE PrefixCountGeq(_, _, _)
PrefixCountGeq(items, c, k) ==
    IF k < Len(items) /\ items[k + 1][2] >= c
    THEN PrefixCountGeq(items, c, k + 1)
    ELSE k

InsertByCount(items, it) ==
    LET k == PrefixCountGeq(items, it[2], 0)
    IN  SubSeq(items, 1, k) \o <<it>> \o SubSeq(items, k + 1, Len(items))

RECURSIVE most_common(_)
most_common(items) ==
    IF items = <<>> THEN <<>>
    ELSE InsertByCount(most_common(SubSeq(items, 1, Len(items) - 1)),
                       items[Len(items)])

\* if count >= mincount
KeepStrict(count, minc) == count > minc
Keep(count, minc) == count >= minc

\* The generator's next yield: the first item after position k that passes
\* the filter, 0 when the loop ends without one.
RECURSIVE NextYield(_, _, _)
NextYield(items, k, minc) ==
    IF k >= Len(items) THEN 0
    ELSE IF Keep(items[k + 1][2], minc) THEN k + 1
    ELSE NextYield(items, k + 1, minc)

(***************************************************************************)
(* nw.global_align(a, b, gap_open=-1, gap_extend=-1, matrix=MATCH): the     *)
(* library's global alignment, a Needleman-Wunsch alignment with a linear  *)
(* gap penalty.  The result is the pair of gapped strings.                 *)
(***************************************************************************)
\* gap_open and gap_extend are equal: every gap column costs GapExtend.
GapOpen == -1
GapExtend == -1
MatchScore == 1
MismatchScore == -1

Gap == "-"

Max2(x, y) == IF x >= y THEN x ELSE y

Subst(x, y) == IF x = y THEN MatchScore ELSE MismatchScore

\* Cell j of row i of the score matrix, appended to the cells before it; prev
\* is row i - 1, and entry j of a row is row[j + 1].
NWCell(a, b, i, prev, row) ==
    LET j == Len(row)
        diag == prev[j] + Subst(a[i], b[j])
        up == prev[j + 1] + GapExtend
        left == row[j] + GapExtend
    IN  Append(row, Max2(diag, Max2(up, left)))

\* The next n cells of row i (fewer when the row is complete before).
RECURSIVE NWCells(_, _, _, _, _, _)
NWCells(a, b, i, prev, row, n) ==
    IF n = 0 \/ Len(row) > Len(b) THEN row
    ELSE IF n = 1 THEN NWCell(a, b, i, prev, row)
    ELSE NWCells(a, b, i, prev,
                 NWCells(a, b, i, prev, row, n \div 2), n - n \div 2)

NWRow(a, b, rows) ==
    LET i == Len(rows)
    IN  Append(rows, NWCells(a, b, i, rows[i], <<i * GapExtend>>, Len(b)))

\* The next n rows of the score matrix (fewer when it is complete before).
RECURSIVE NWRows(_, _, _, _)
NWRows(a, b, rows, n) ==
    IF n = 0 \/ Len(rows) > Len(a) THEN rows
    ELSE IF n = 1 THEN NWRow(a, b, rows)
    ELSE NWRows(a, b, NWRows(a, b, rows, n \div 2), n - n \div 2)

\* One step of the traceback from cell (t.i, t.j): a match or mismatch
\* column first, then a gap in b, then a gap in a.
NWStep(a, b, M, t) ==
    IF t.i = 0 /\ t.j = 0 THEN t
    ELSE IF t.i > 0 /\ t.j > 0
            /\ M[t.i + 1][t.j + 1] = M[t.i][t.j] + Subst(a[t.i], b[t.j])
    THEN [i |-> t.i - 1, j |-> t.j - 1,
          outA |-> <<a[t.i]>> \o t.outA, outB |-> <<b[t.j]>> \o t.outB]
    ELSE IF t.i > 0 /\ M[t.i + 1][t.j + 1] = M[t.i][t.j + 1] + GapExtend
    THEN [i |-> t.i - 1, j |-> t.j,
          outA |-> <<a[t.i]>> \o t.outA, outB |-> <<Gap>> \o t.outB]
    ELSE [i |-> t.i, j |-> t.j - 1,
          outA |-> <<Gap>> \o t.outA, outB |-> <<b[t.j]>> \o t.outB]

\* The next n steps of the traceback (fewer when it ends before).
RECURSIVE NWTrace(_, _, _, _, _)
NWTrace(a, b, M, t, n) ==
    IF n = 0 \/ (t.i = 0 /\ t.j = 0) THEN t
    ELSE IF n = 1 THEN NWStep(a, b, M, t)
    ELSE NWTrace(a, b, M, NWTrace(a, b, M, t, n \div 2), n - n \div 2)

global_align(a, b) ==
    LET first == [j \in 1..(Len(b) + 1) |-> (j - 1) * GapExtend]
        M == NWRows(a, b, <<first>>, Len(a))
        t == NWTrace(a, b, M,
                     [i |-> Len(a), j |-> Len(b), outA |-> <<>>, outB |-> <<>>],
                     Len(a) + Len(b))
    IN  <<t.outA, t.outB>>

(***************************************************************************)
(* get_identity.                                                           *)
(***************************************************************************)
\* round(x, 2) of x = num / den (in percent), in hundredths: to the nearest
\* hundredth, a tie going to the even one.
RoundHundredths(num, den) ==
    LET q == (100 * num) \div den
        r == (100 * num) % den
    IN  IF 2 * r < den THEN q
        ELSE IF 2 * r > den THEN q + 1
        ELSE IF q % 2 = 0 THEN q ELSE q + 1

Returned(v) == [err |-> "none", val |-> v]
Raised(e) == [err |-> e, val |-> 0]

\* Counts the columns that differ instead of the ones that agree.
get_identity_mismatches(alignment_list) ==
    LET a == alignment_list[1]
        b == alignment_list[2]
    IN  IF Len(a) > Len(b) THEN Raised("IndexError")
        ELSE IF Len(a) = 0 THEN Raised("ZeroDivisionError")
        ELSE Returned(RoundHundredths(
                 100 * Cardinality({i \in 1..Len(a) : a[i] # b[i]}), Len(a)))

\* The generator reads alignment_list[1][i] for every i in
\* range(len(alignment_list[0])): an IndexError when the second string is the
\* shorter one.  The sum is then divided by len(alignment_list[0]).
get_identity(alignment_list) ==
    LET a == alignment_list[1]
        b == alignment_list[2]
    IN  IF Len(a) > Len(b) THEN Raised("IndexError")
        ELSE IF Len(a) = 0 THEN Raised("ZeroDivisionError")
        ELSE Returned(RoundHundredths(
                 100 * Cardinality({i \in 1..Len(a) : a[i] = b[i]}), Len(a)))

\* if identity >= 97
Threshold == 9700
IsVariantLoose(identity) == identity >= Threshold + 100
IsVariant(identity) == identity >= Threshold

(***************************************************************************)
(* The pipeline: abundance_greedy_clustering(amplicon_file, minseqlen,     *)
(* mincount).  Its first next(dereplication) runs the generator            *)
(* dereplication_fulllength up to its first yield, which consumes          *)
(* read_fasta whole.                                                       *)
(***************************************************************************)
NoRecord == <<<<>>, 0>>
NoResult == [err |-> "pending", val |-> 0]

Init ==
    /\ \/ /\ file \in Files
          /\ minseqlen \in 0..MaxMinSeqLen
          /\ mincount \in 1..MaxMinCount
       \/ /\ file = Scenario
          /\ minseqlen = ScenarioArgs.minseqlen
          /\ mincount = ScenarioArgs.mincount
    /\ pc = "read"
    /\ lineno = 0
    /\ seq = <<>>
    /\ reads = <<>>
    /\ common = <<>>
    /\ cpos = 0
    /\ emitted = <<>>
    /\ list_OTU = <<>>
    /\ cur = NoRecord
    /\ jpos = 0
    /\ unique = TRUE
    /\ err = "none"
    /\ alnA = <<>>
    /\ alnB = <<>>
    /\ idres = NoResult

\* read_fasta: one iteration of "for line in file_in".
ReadLine ==
    /\ pc = "read"
    /\ lineno < Len(file)
    /\ LET line == file[lineno + 1]
       IN  IF startswith(line, ">")
           THEN /\ reads' = FlushHeader(reads, seq, minseqlen)
                /\ seq' = <<>>
           ELSE /\ seq' = Accumulate(seq, line)
                /\ UNCHANGED reads
    /\ lineno' = lineno + 1
    /\ UNCHANGED <<file, minseqlen, mincount, pc, common, cpos, emitted,
                   list_OTU, cur, jpos, unique, err>>
    /\ UNCHANGED idVars

\* read_fasta: the yield after the loop.
ReadEnd ==
    /\ pc = "read"
    /\ lineno = Len(file)
    /\ reads' = FlushEnd(reads, seq, minseqlen)
    /\ pc' = "derep"
    /\ UNCHANGED <<file, minseqlen, mincount, lineno, seq, common, cpos,
                   emitted, list_OTU, cur, jpos, unique, err>>
    /\ UNCHANGED idVars

\* dereplication_fulllength: sort, count, order by count.
Dereplicate ==
    /\ pc = "derep"
    /\ common' = most_common(Counter(sorted_reverse(reads)))
    /\ cpos' = 0
    /\ pc' = "seed"
    /\ UNCHANGED <<file, minseqlen, mincount, lineno, seq, reads, emitted,
                   list_OTU, cur, jpos, unique, err>>
    /\ UNCHANGED idVars

\* list_OTU = [next(dereplication)]
Seed ==
    /\ pc = "seed"
    /\ LET k == NextYield(common, cpos, mincount)
       IN  IF k = 0
           THEN /\ cpos' = Len(common)
                /\ err' = "StopIteration"
                /\ pc' = "error"
                /\ UNCHANGED <<emitted, list_OTU>>
           ELSE /\ cpos' = k
                /\ emitted' = Append(emitted, common[k])
                /\ list_OTU' = <<common[k]>>
                /\ pc' = "next"
                /\ UNCHANGED err
    /\ UNCHANGED <<file, minseqlen, mincount, lineno, seq, reads, common,
                   cur, jpos, unique>>
    /\ UNCHANGED idVars

\* for i in dereplication: unique = True
NextRecord ==
    /\ pc = "next"
    /\ LET k == NextYield(common, cpos, mincount)
       IN  IF k = 0
           THEN /\ cpos' = Len(common)
                /\ pc' = "done"
                /\ UNCHANGED <<emitted, cur, jpos, unique>>
           ELSE /\ cpos' = k
                /\ emitted' = Append(emitted, common[k])
                /\ cur' = common[k]
                /\ unique' = TRUE
                /\ jpos' = 0
                /\ pc' = "scan"
    /\ UNCHANGED <<file, minseqlen, mincount, lineno, seq, reads, common,
                   list_OTU, err>>
    /\ UNCHANGED idVars

\* list_OTU.append(i)
AppendGapped(otus, rec, aligned) == Append(otus, <<aligned, rec[2]>>)
AppendFront(otus, rec, aligned) == <<rec>> \o otus
AppendOTU(otus, rec, aligned) == Append(otus, rec)

\* for j in list_OTU: one iteration, or the end of the loop and "if unique".
Compare ==
    /\ pc = "scan"
    /\ jpos < Len(list_OTU)
    /\ LET j == list_OTU[jpos + 1]
           alignment == global_align(cur[1], j[1])
           identity == get_identity(alignment)
       IN  /\ alnA' = alignment[1]
           /\ alnB' = alignment[2]
           /\ idres' = identity
           /\ IF identity.err # "none"
              THEN /\ err' = identity.err
                   /\ pc' = "error"
                   /\ UNCHANGED <<jpos, unique>>
              ELSE IF IsVariant(identity.val)
              THEN /\ unique' = FALSE
                   /\ pc' = "check"
                   /\ UNCHANGED <<jpos, err>>
              ELSE /\ jpos' = jpos + 1
                   /\ pc' = IF jpos + 1 = Len(list_OTU) THEN "check" ELSE "scan"
                   /\ UNCHANGED <<unique, err>>
    /\ UNCHANGED <<file, minseqlen, mincount, lineno, seq, reads, common,
                   cpos, emitted, list_OTU, cur>>

\* if unique: list_OTU.append(i)
CheckUnique ==
    /\ pc = "check"
    /\ list_OTU' = IF unique THEN AppendOTU(list_OTU, cur, alnA) ELSE list_OTU
    /\ pc' = "next"
    /\ UNCHANGED <<file, minseqlen, mincount, lineno, seq, reads, common,
                   cpos, emitted, cur, jpos, unique, err>>
    /\ UNCHANGED idVars

Next ==
    \/ ReadLine
    \/ ReadEnd
    \/ Dereplicate
    \/ Seed
    \/ NextRecord
    \/ Compare
    \/ CheckUnique

Spec == Init /\ [][Next]_vars

(***************************************************************************)
(* get_identity on its own: one call on a pair of gapped strings.          *)
(***************************************************************************)
AlnStrings == UNION {[1..n -> {"A", "T", Gap}] : n \in 0..MaxAlnLen}

InitIdentity ==
    /\ file = <<>>
    /\ minseqlen = 0
    /\ mincount = 1
    /\ pc = "identity"
    /\ lineno = 0
    /\ seq = <<>>
    /\ reads = <<>>
    /\ common = <<>>
    /\ cpos = 0
    /\ emitted = <<>>
    /\ list_OTU = <<>>
    /\ cur = NoRecord
    /\ jpos = 0
    /\ unique = TRUE
    /\ err = "none"
    /\ alnA \in AlnStrings
    /\ alnB \in AlnStrings
    /\ idres = NoResult

CallIdentity ==
    /\ pc = "identity"
    /\ idres = NoResult
    /\ idres' = get_identity(<<alnA, alnB>>)
    /\ err' = idres'.err
    /\ pc' = IF idres'.err = "none" THEN "done" ELSE "error"
    /\ UNCHANGED <<file, minseqlen, mincount, lineno, seq, reads, common,
                   cpos, emitted, list_OTU, cur, jpos, unique, alnA, alnB>>

NextIdentity == CallIdentity

SpecIdentity == InitIdentity /\ [][NextIdentity]_vars

(***************************************************************************)
(* Properties.                                                             *)
(***************************************************************************)
Terminated == pc \in {"done", "error"}

InScenario ==
    /\ file = Scenario
    /\ minseqlen = ScenarioArgs.minseqlen
    /\ mincount = ScenarioArgs.mincount

\* Number of occurrences of s among the sequences read_fasta yielded.
Occurrences(s) == Cardinality({k \in DOMAIN reads : reads[k] = s})

IsOTU(rec) == \E k \in DOMAIN list_OTU : list_OTU[k] = rec

\* The identity rate of the global alignment of a against b.
Identity(a, b) == get_identity(global_align(a, b)).val

\* C1 as stated: in the scenario with minseqlen=4 and mincount=2 the
\* dereplication yields [("TTTT",3), ("AAAA",2)] and the clustering returns
\* the same list.
C1_ScenarioAsStated ==
    (InScenario /\ Terminated) =>
        /\ emitted = << <<TTTT, 3>>, <<AAAA, 2>> >>
        /\ list_OTU = << <<TTTT, 3>>, <<AAAA, 2>> >>

\* C1 amended: in the scenario the two body lines of r1 are concatenated, so
\* AAAA occurs once only; the dereplication yields [("TTTT",3)] and the
\* clustering returns [("TTTT",3)].
C1_Scenario ==
    (InScenario /\ Terminated) =>
        /\ pc = "done"
        /\ emitted = << <<TTTT, 3>> >>
        /\ list_OTU = << <<TTTT, 3>> >>

C1_Witness == InScenario /\ pc = "done" /\ Len(reads) = 5

\* C2: the records yielded by dereplication_fulllength are strictly ordered:
\* of two consecutive records the first has the greater count, or the same
\* count and the lexicographically greater sequence; no sequence is yielded
\* twice.
C2_StrictOrder ==
    /\ \A k \in 1..(Len(emitted) - 1) :
           \/ emitted[k][2] > emitted[k + 1][2]
           \/ /\ emitted[k][2] = emitted[k + 1][2]
              /\ StrLess(emitted[k + 1][1], emitted[k][1])
    /\ \A k, l \in DOMAIN emitted : k # l => emitted[k][1] # emitted[l][1]

C2_Witness ==
    /\ pc = "done"
    /\ Len(emitted) >= 2
    /\ emitted[1][2] = emitted[2][2]
    /\ emitted[1][1] # <<>>
    /\ emitted[2][1] # <<>>

\* C3: once the stream is exhausted, a sequence that read_fasta yielded has a
\* record iff it occurs at least mincount times, and every record holds a
\* sequence read_fasta yielded with the exact number of its occurrences.
C3_CountFilter ==
    Terminated =>
        /\ \A r \in DOMAIN reads :
               (\E k \in DOMAIN emitted : emitted[k][1] = reads[r])
                   <=> Occurrences(reads[r]) >= mincount
        /\ \A k \in DOMAIN emitted :
               /\ emitted[k][2] = Occurrences(emitted[k][1])
               /\ emitted[k][2] >= 1

C3_Witness ==
    /\ pc = "done"
    /\ \E k \in DOMAIN emitted : emitted[k][2] = mincount
    /\ \E r \in DOMAIN reads :
           /\ Occurrences(reads[r]) = mincount - 1
           /\ \A k \in DOMAIN emitted : emitted[k][1] # reads[r]

\* C4: every record yielded by dereplication_fulllength has a sequence of
\* length >= minseqlen.
C4_MinLength ==
    \A k \in DOMAIN emitted : Len(emitted[k][1]) >= minseqlen

C6_Subsequence ==
    /\ Len(list_OTU) <= Len(emitted)
    /\ \A k \in DOMAIN list_OTU :
           /\ \E p \in DOMAIN emitted : emitted[p] = list_OTU[k]
           /\ \A c \in DOMAIN list_OTU[k][1] : list_OTU[k][1][c] # Gap
    /\ \A k, l \in DOMAIN list_OTU :
           k < l =>
               /\ \E p, q \in DOMAIN emitted :
                      p < q /\ emitted[p] = list_OTU[k] /\ emitted[q] = list_OTU[l]
               /\ list_OTU[k][2] >= list_OTU[l][2]

C6_Witness ==
    /\ pc = "done"
    /\ Len(list_OTU) = 2
    /\ list_OTU[1][2] > list_OTU[2][2]

\* C7: an empty dereplicated stream ends the clustering with a named "no
\* sequences found" failure, not with the exception of next() on the
\* exhausted generator.
C7_NamedFailure ==
    (Terminated /\ emitted = <<>>) => (pc = "error" /\ err = "NoSequencesFound")

\* C8: for two gapped strings of the same non-zero length get_identity
\* returns 100 * (number of columns holding the same character) / length to
\* the nearest hundredth; it is symmetric, and 100.0 on a string and itself.
C8_Identity ==
    (idres # NoResult /\ Len(alnA) = Len(alnB) /\ Len(alnA) > 0) =>
        LET n == Len(alnA)
            same == Cardinality({i \in 1..n : alnA[i] = alnB[i]})
            d == idres.val * n - 100 * 100 * same
        IN  /\ idres.err = "none"
            /\ 2 * d <= n
            /\ -2 * d <= n
            /\ idres = get_identity(<<alnB, alnA>>)
            /\ (alnA = alnB => idres.val = 100 * 100)

C8_Witness ==
    /\ idres.err = "none"
    /\ Len(alnA) = 3
    /\ Len(alnB) = 3
    /\ \E i \in 1..3 : alnA[i] = Gap /\ alnB[i] = Gap
    /\ idres.val = 3333

\* C9: every step leaves the OTU list unchanged or appends one element to it.
C9_AppendOnly ==
    [][\/ list_OTU' = list_OTU
       \/ /\ Len(list_OTU') = Len(list_OTU) + 1
          /\ SubSeq(list_OTU', 1, Len(list_OTU)) = list_OTU]_vars

C9_Witness ==
    /\ pc = "done"
    /\ Len(list_OTU) >= 2
    /\ list_OTU[1][2] = list_OTU[2][2]

\* C10: get_identity on two strings of different lengths fails and returns
\* no value.
C10_LengthMismatchFails ==
    (idres # NoResult /\ Len(alnA) # Len(alnB)) => idres.err # "none"

=============================================================================
